---------------------------- MODULE Spec2Model ----------------------------
(***************************************************************************)
(* A model of github.com/rodaine/table: the row store (New, AddHeader,     *)
(* AddRow, SetRows), the width calculator and renderer (Print), the sorter *)
(* (SortBy, SortByMultiple) and the transposer (Transpose).                *)
(*                                                                         *)
(* A Go string is a sequence of runes, a rune is its code point.  A slice  *)
(* is a sequence; Go's 0-based index n is the 1-based index n + 1.  A      *)
(* panic (index out of range) ends the program: it sets fault and no       *)
(* further call is made.                                                   *)
(***************************************************************************)
EXTENDS Integers, Sequences, FiniteSets

VARIABLES
    tables,   \* the live *table values: "s" made by New, "r" returned by Transpose
    out,      \* the Write calls the io.Writer received during the latest call
    err,      \* the error result of the latest call ("nil", "error"; "none": no result)
    fault,    \* TRUE once a call panicked
    last      \* the latest call: its name, its receiver, the arguments of a sorter call

vars == <<tables, out, err, fault, last>>

---------------------------------------------------------------------------
(* Bounds of the model.                                                    *)

\* the header is not grown past MaxCols columns
MaxCols == 2

\* a table is not grown past MaxRows stored rows
MaxRows == 3

---------------------------------------------------------------------------
(* Strings.                                                                *)

\* '\n', the separator of strings.Count and strings.Split in AddRowAsArray
NL == 10

\* ' ', the rune lenOffset repeats
SP == 32

\* the text fmt.Fprintf writes for a %s verb that has no operand
MISSING == <<37, 33, 115, 40, 77, 73, 83, 83, 73, 78, 71, 41>>

max(i1, i2) == IF i1 > i2 THEN i1 ELSE i2

RECURSIVE SumSeq(_)
SumSeq(q) == IF q = <<>> THEN 0 ELSE Head(q) + SumSeq(Tail(q))

RECURSIVE Concat(_)
\* the concatenation of a sequence of strings
Concat(q) == IF q = <<>> THEN <<>> ELSE Head(q) \o Concat(Tail(q))

\* strings.Repeat(" ", l)
Spaces(l) == [i \in 1..l |-> SP]

RECURSIVE Itoa(_)
\* the decimal digits of a natural number
Itoa(n) == IF n < 10 THEN <<48 + n>> ELSE Itoa(n \div 10) \o <<48 + (n % 10)>>

\* fmt.Sprint(val): a string is written as it is, an integer in decimal
Sprint(val) ==
    IF val.kind = "int"
    THEN IF val.i < 0 THEN <<45>> \o Itoa(0 - val.i) ELSE Itoa(val.i)
    ELSE val.s

RECURSIVE Count(_, _)
\* strings.Count(s, "\n") for the one-rune separator sep
Count(s, sep) ==
    IF s = <<>> THEN 0
    ELSE (IF Head(s) = sep THEN 1 ELSE 0) + Count(Tail(s), sep)

RECURSIVE Split(_, _)
\* strings.Split(s, "\n"): Count(s, sep) + 1 pieces, none holding sep
Split(s, sep) ==
    IF s = <<>> THEN << <<>> >>
    ELSE LET rest == Split(Tail(s), sep) IN
         IF Head(s) = sep
         THEN << <<>> >> \o rest
         ELSE << <<Head(s)>> \o Head(rest) >> \o Tail(rest)

\* safeOffset(sarr, idx), idx 0-based
safeOffset(sarr, idx) == IF idx >= Len(sarr) THEN <<>> ELSE sarr[idx + 1]

\* utf8.RuneCountInString, the DefaultWidthFunc
RuneCountInString(s) == Len(s)

---------------------------------------------------------------------------
(* Construction and configuration.                                         *)

DefaultPadding == 2

DefaultPrintHeaders == TRUE

\* a WidthFunc a caller passes for East Asian text: a rune from U+1100 on
\* takes two cells, any other rune one
WideRuneWidth(s) == SumSeq([i \in 1..Len(s) |-> IF s[i] >= 4352 THEN 2 ELSE 1])

\* t.Width(s): the table's WidthFunc, DefaultWidthFunc unless replaced
Width(t, s) ==
    IF t.Width = "WideRuneWidth" THEN WideRuneWidth(s) ELSE RuneCountInString(s)

WithWidthFunc(t, f) == [t EXCEPT !.Width = f]

WithPadding(t, p) == [t EXCEPT !.Padding = IF p < 0 THEN 0 ELSE p]

WithHeaderSeparatorRow(t, r) == [t EXCEPT !.HeaderSeparatorRune = r]

WithPrintHeaders(t, b) == [t EXCEPT !.PrintHeaders = b]

\* New(columnHeaders...): the header is the string form of each value,
\* rows and widths are nil, the configuration is the package defaults
\* (the Default...Formatter variables are nil and stay nil in this model)
New(columnHeaders) ==
    WithPrintHeaders(
        WithPadding(
            [header |-> [i \in 1..Len(columnHeaders) |-> Sprint(columnHeaders[i])],
             rows |-> <<>>,
             widths |-> <<>>,
             Padding |-> 0,
             Width |-> "DefaultWidthFunc",
             HeaderSeparatorRune |-> 0,
             PrintHeaders |-> FALSE],
            DefaultPadding),
        DefaultPrintHeaders)

---------------------------------------------------------------------------
(* Row store.                                                              *)

\* AddHeader(col)
AddHeader(t, col) == [t EXCEPT !.header = Append(@, col)]

\* AddHeaders(cols...)
AddHeaders(t, cols) == [t EXCEPT !.header = @ \o cols]

RECURSIVE AddHeadersAsArray(_, _)
\* AddHeadersAsArray(cols): one append per element
AddHeadersAsArray(t, cols) ==
    IF cols = <<>> THEN t
    ELSE AddHeadersAsArray([t EXCEPT !.header = Append(@, Head(cols))], Tail(cols))

RECURSIVE MaxNumNewlines(_)
\* the first loop of AddRowAsArray, over every value of the call
MaxNumNewlines(vals) ==
    IF vals = <<>> THEN 0
    ELSE max(Count(Sprint(vals[Len(vals)]), NL),
             MaxNumNewlines(SubSeq(vals, 1, Len(vals) - 1)))

\* the row AddRowAsArray builds with row := make([]string, len(vals))
AddRowLineOfVals(t, vals, i) ==
    [j \in 1..Len(vals) |-> safeOffset(Split(Sprint(vals[j]), NL), i)]

\* the row AddRowAsArray builds for line i (0-based) of the values
AddRowLine(t, vals, i) ==
    [j \in 1..Len(t.header) |->
        IF j <= Len(vals) THEN safeOffset(Split(Sprint(vals[j]), NL), i) ELSE <<>>]

\* AddRowAsArray(vals) counting the line breaks of the stored values only
AddRowAsArrayStoredOnly(t, vals) ==
    [t EXCEPT !.rows = @ \o
        [i \in 1..(MaxNumNewlines(SubSeq(vals, 1, IF Len(vals) < Len(t.header)
                                                  THEN Len(vals) ELSE Len(t.header))) + 1) |->
            AddRowLine(t, vals, i - 1)]]

\* AddRowAsArray(vals)
AddRowAsArray(t, vals) ==
    [t EXCEPT !.rows = @ \o [i \in 1..(MaxNumNewlines(vals) + 1) |-> AddRowLine(t, vals, i - 1)]]

\* AddRow(vals...)
AddRow(t, vals) == AddRowAsArray(t, vals)

\* SetRows(rows) without t.rows = [][]string{}
SetRowsAppend(t, rows) ==
    [t EXCEPT !.rows = @ \o
        [r \in 1..Len(rows) |->
            IF Len(rows[r]) > Len(t.header)
            THEN SubSeq(rows[r], 1, Len(t.header))
            ELSE rows[r]]]

\* SetRows(rows)
SetRows(t, rows) ==
    [t EXCEPT !.rows =
        [r \in 1..Len(rows) |->
            IF Len(rows[r]) > Len(t.header)
            THEN SubSeq(rows[r], 1, Len(t.header))
            ELSE rows[r]]]

---------------------------------------------------------------------------
(* Width calculator and renderer.                                          *)

\* one pass of the inner loop of calculateWidths over the cells of row
RaiseWidths(t, widths, row) ==
    [i \in 1..Len(widths) |->
        IF i <= Len(row) /\ Width(t, row[i]) + t.Padding > widths[i]
        THEN Width(t, row[i]) + t.Padding
        ELSE widths[i]]

RECURSIVE RaiseWidthsAll(_, _, _)
\* the loop of calculateWidths over t.rows
RaiseWidthsAll(t, widths, rows) ==
    IF rows = <<>> THEN widths
    ELSE RaiseWidthsAll(t, RaiseWidths(t, widths, Head(rows)), Tail(rows))

\* calculateWidths indexes t.widths[i] for every cell i of every row: it
\* panics on a row that has more cells than the header
calculateWidthsPanics(t) == \E r \in 1..Len(t.rows) : Len(t.rows[r]) > Len(t.header)

\* calculateWidths() without its second loop, the one over t.header
calculateWidthsNoHeader(t) ==
    RaiseWidthsAll(t, [i \in 1..Len(t.header) |-> 0], t.rows)

\* calculateWidths(): the new t.widths
calculateWidths(t) ==
    RaiseWidths(t,
                RaiseWidthsAll(t, [i \in 1..Len(t.header) |-> 0], t.rows),
                t.header)

\* lenOffset(s, w)
lenOffset(t, s, w) ==
    LET l == w - Width(t, s) IN IF l <= 0 THEN <<>> ELSE Spaces(l)

\* applyWidths(row, widths)
applyWidths(t, row, widths) ==
    [i \in 1..Len(row) |-> row[i] \o lenOffset(t, row[i], widths[i])]

\* fmt.Fprintf(w, format, vals...) for format = Repeat("%s", nverbs) + "\n":
\* one Write of the operands in order, MISSING for a verb without operand
Fprintf(nverbs, vals) ==
    Concat([i \in 1..nverbs |-> IF i <= Len(vals) THEN vals[i] ELSE MISSING]) \o <<NL>>

\* printHeader(format), HeaderFormatter nil
printHeader(t, format) == Fprintf(format, applyWidths(t, t.header, t.widths))

\* the separators of printHeaderSeparator with the division rounded up
SeparatorsRoundUp(t) ==
    LET separatorCellWidth == Width(t, <<t.HeaderSeparatorRune>>) IN
    [index \in 1..Len(t.header) |->
        [i \in 1..((Width(t, t.header[index]) + separatorCellWidth - 1)
                      \div separatorCellWidth) |->
            t.HeaderSeparatorRune]]

\* the separators of printHeaderSeparator
Separators(t) ==
    LET separatorCellWidth == Width(t, <<t.HeaderSeparatorRune>>) IN
    [index \in 1..Len(t.header) |->
        [i \in 1..(Width(t, t.header[index]) \div separatorCellWidth) |->
            t.HeaderSeparatorRune]]

\* printHeaderSeparator(format), HeaderFormatter nil
printHeaderSeparator(t, format) == Fprintf(format, applyWidths(t, Separators(t), t.widths))

\* printRow(format, row, alternate), FirstColumnFormatter and StandoutFormatter nil
printRow(t, format, row, alternate) == Fprintf(format, applyWidths(t, row, t.widths))

\* Print() that first pads the stored rows to the header's length
PrintTablePadsRows(t) ==
    LET format == Len(t.header)
        t0 == [t EXCEPT !.rows =
                  [r \in 1..Len(t.rows) |->
                      [j \in 1..max(Len(t.header), Len(t.rows[r])) |->
                          IF j <= Len(t.rows[r]) THEN t.rows[r][j] ELSE <<>>]]]
        t1 == [t0 EXCEPT !.widths = calculateWidths(t0)]
    IN  [t |-> t1,
         writes |->
            (IF t1.PrintHeaders
             THEN <<printHeader(t1, format)>> \o
                  (IF t1.HeaderSeparatorRune # 0
                   THEN <<printHeaderSeparator(t1, format)>>
                   ELSE <<>>)
             ELSE <<>>)
            \o [i \in 1..Len(t1.rows) |-> printRow(t1, format, t1.rows[i], (i - 1) % 2 = 1)]]

\* Print(): the table with its new widths and the Write calls in order
PrintTable(t) ==
    LET format == Len(t.header)
        t1 == [t EXCEPT !.widths = calculateWidths(t)]
    IN  [t |-> t1,
         writes |->
            (IF t1.PrintHeaders
             THEN <<printHeader(t1, format)>> \o
                  (IF t1.HeaderSeparatorRune # 0
                   THEN <<printHeaderSeparator(t1, format)>>
                   ELSE <<>>)
             ELSE <<>>)
            \o [i \in 1..Len(t1.rows) |-> printRow(t1, format, t1.rows[i], (i - 1) % 2 = 1)]]

---------------------------------------------------------------------------
(* Comparators.                                                            *)

RECURSIVE StringLess(_, _)
\* Go's a < b on strings: lexicographic order of the bytes
StringLess(a, b) ==
    IF b = <<>> THEN FALSE
    ELSE IF a = <<>> THEN TRUE
    ELSE IF Head(a) < Head(b) THEN TRUE
    ELSE IF Head(a) > Head(b) THEN FALSE
    ELSE StringLess(Tail(a), Tail(b))

\* StringComparison(a, b)
StringComparison(a, b) ==
    IF StringLess(a, b) THEN -1
    ELSE IF StringLess(b, a) THEN 1
    ELSE 0

\* a ComparisonFunc value: a library function, inverted or not
StringCmp == [fn |-> "StringComparison", inverse |-> FALSE]

\* InverseComparison(cmp): the closure that returns -cmp(a, b)
InverseComparison(cmp) == [cmp EXCEPT !.inverse = ~@]

\* strconv.ParseBool(str): whether it parses, and the value
ParseBool(str) ==
    IF str \in {<<49>>, <<116>>, <<84>>, <<84, 82, 85, 69>>, <<116, 114, 117, 101>>, <<84, 114, 117, 101>>}
    THEN [ok |-> TRUE, value |-> TRUE]
    ELSE IF str \in {<<48>>, <<102>>, <<70>>, <<70, 65, 76, 83, 69>>, <<102, 97, 108, 115, 101>>, <<70, 97, 108, 115, 101>>}
    THEN [ok |-> TRUE, value |-> FALSE]
    ELSE [ok |-> FALSE, value |-> FALSE]

\* BoolComparison(a, b) with the numerical comparators' order for a value
\* that does not parse
BoolComparisonInvalidLast(a, b) ==
    LET _a == ParseBool(a)
        _b == ParseBool(b)
    IN  IF ~_a.ok \/ ~_b.ok
        THEN (IF ~_a.ok /\ ~_b.ok THEN 0 ELSE IF ~_a.ok THEN 1 ELSE -1)
        ELSE IF _a.value = _b.value THEN 0
        ELSE IF ~_a.value /\ _b.value THEN -1
        ELSE 1

\* BoolComparison(a, b)
BoolComparison(a, b) ==
    LET _a == ParseBool(a)
        _b == ParseBool(b)
    IN  IF ~_a.ok \/ ~_b.ok
        THEN (IF ~_a.ok /\ ~_b.ok THEN 0 ELSE IF ~_a.ok THEN -1 ELSE 1)
        ELSE IF _a.value = _b.value THEN 0
        ELSE IF ~_a.value /\ _b.value THEN -1
        ELSE 1

\* the runes '0'..'9'
Digits == 48..57

RECURSIVE DigitsValue(_)
\* the number a string of decimal digits denotes
DigitsValue(ds) ==
    IF ds = <<>> THEN 0 ELSE DigitsValue(SubSeq(ds, 1, Len(ds) - 1)) * 10 + (ds[Len(ds)] - 48)

RECURSIVE Pow10(_)
Pow10(n) == IF n = 0 THEN 1 ELSE 10 * Pow10(n - 1)

\* strconv.ParseFloat(str, 64) on decimal notation, an optional sign, digits
\* and at most one point with a digit on one side of it: whether it parses,
\* and the value as mant / 10^frac.  Exponents, hexadecimal notation,
\* infinities and NaN are not modelled: no input spells one.
ParseFloat(str) ==
    LET signed == str # <<>> /\ str[1] \in {43, 45}
        body == IF signed THEN Tail(str) ELSE str
        points == {i \in 1..Len(body) : body[i] = 46}
        digits == SelectSeq(body, LAMBDA c : c \in Digits)
        ok == /\ \A i \in 1..Len(body) : body[i] \in Digits \cup {46}
              /\ Cardinality(points) <= 1
              /\ digits # <<>>
        frac == IF points = {} THEN 0 ELSE Len(body) - (CHOOSE i \in points : TRUE)
    IN  IF ~ok THEN [ok |-> FALSE, mant |-> 0, frac |-> 0]
        ELSE [ok |-> TRUE,
              mant |-> (IF signed /\ str[1] = 45 THEN -1 ELSE 1) * DigitsValue(digits),
              frac |-> frac]

\* numA < numB on parsed numbers
FloatLess(numA, numB) == numA.mant * Pow10(numB.frac) < numB.mant * Pow10(numA.frac)

\* the tail shared by NumericalComparison, CurrencyComparison and
\* PercentComparison, from the two parse results on
NumberComparison(numA, numB) ==
    IF ~numA.ok \/ ~numB.ok
    THEN (IF ~numA.ok /\ ~numB.ok THEN 0 ELSE IF ~numA.ok THEN 1 ELSE -1)
    ELSE IF FloatLess(numA, numB) THEN -1
    ELSE IF FloatLess(numB, numA) THEN 1
    ELSE 0

\* NumericalComparison(a, b)
NumericalComparison(a, b) == NumberComparison(ParseFloat(a), ParseFloat(b))

\* strings.ReplaceAll(str, old, "") for a one-rune old
RemoveAll(str, old) == SelectSeq(str, LAMBDA c : c # old)

\* parseCurrencyString(s)
parseCurrencyString(str) == ParseFloat(RemoveAll(RemoveAll(str, 36), 44))

\* CurrencyComparison(a, b)
CurrencyComparison(a, b) == NumberComparison(parseCurrencyString(a), parseCurrencyString(b))

\* parsePercentString(s)
parsePercentString(str) == ParseFloat(RemoveAll(str, 37))

\* PercentComparison(a, b)
PercentComparison(a, b) == NumberComparison(parsePercentString(a), parsePercentString(b))

\* the library function named fn, called on a and b
Library(fn, a, b) ==
    CASE fn = "StringComparison" -> StringComparison(a, b)
      [] fn = "BoolComparison" -> BoolComparison(a, b)
      [] fn = "NumericalComparison" -> NumericalComparison(a, b)
      [] fn = "CurrencyComparison" -> CurrencyComparison(a, b)
      [] fn = "PercentComparison" -> PercentComparison(a, b)

\* the call cmp(a, b) of a ComparisonFunc value
Compare(cmp, a, b) ==
    LET c == Library(cmp.fn, a, b) IN IF cmp.inverse THEN 0 - c ELSE c

---------------------------------------------------------------------------
(* Sorter.                                                                 *)

\* the less closure of SortBy with cmpFn(...) <= 0 for cmpFn(...) < 0
SortByLessOrEqual(rows, i, j, columnIndex, cmpFn) ==
    IF columnIndex >= Len(rows[i + 1]) \/ columnIndex >= Len(rows[j + 1])
    THEN "panic"
    ELSE IF Compare(cmpFn, rows[i + 1][columnIndex + 1], rows[j + 1][columnIndex + 1]) <= 0
         THEN "true"
         ELSE "false"

\* the less closure of SortBy: "panic" when a row has no cell columnIndex
SortByLess(rows, i, j, columnIndex, cmpFn) ==
    IF columnIndex >= Len(rows[i + 1]) \/ columnIndex >= Len(rows[j + 1])
    THEN "panic"
    ELSE IF Compare(cmpFn, rows[i + 1][columnIndex + 1], rows[j + 1][columnIndex + 1]) < 0
         THEN "true"
         ELSE "false"

\* the less closure of SortByMultiple without the fall through to the next
\* criterion on a tie
SortByMultipleLessFirstOnly(rows, i, j, criteria) ==
    IF criteria = <<>> THEN "false"
    ELSE LET colIdx == Head(criteria).ColumnIndex
             cmpFn == Head(criteria).Compare
         IN  IF colIdx >= Len(rows[i + 1]) \/ colIdx >= Len(rows[j + 1])
             THEN "panic"
             ELSE IF Compare(cmpFn, rows[i + 1][colIdx + 1], rows[j + 1][colIdx + 1]) < 0
                  THEN "true"
                  ELSE "false"

RECURSIVE SortByMultipleLess(_, _, _, _)
\* the less closure of SortByMultiple: the criteria in list order
SortByMultipleLess(rows, i, j, criteria) ==
    IF criteria = <<>> THEN "false"
    ELSE LET colIdx == Head(criteria).ColumnIndex
             cmpFn == Head(criteria).Compare
         IN  IF colIdx >= Len(rows[i + 1]) \/ colIdx >= Len(rows[j + 1])
             THEN "panic"
             ELSE LET result == Compare(cmpFn, rows[i + 1][colIdx + 1], rows[j + 1][colIdx + 1])
                  IN  IF result < 0 THEN "true"
                      ELSE IF result > 0 THEN "false"
                      ELSE SortByMultipleLess(rows, i, j, Tail(criteria))

\* data.Less(i, j) for the closure key names
Less(key, rows, i, j) ==
    IF key.kind = "SortBy"
    THEN SortByLess(rows, i, j, key.columnIndex, key.cmpFn)
    ELSE SortByMultipleLess(rows, i, j, key.criteria)

\* data.Swap(i, j)
Swap(rows, i, j) ==
    [p \in 1..Len(rows) |->
        IF p = i + 1 THEN rows[j + 1] ELSE IF p = j + 1 THEN rows[i + 1] ELSE rows[p]]

RECURSIVE InsertionInner(_, _, _, _)
\* for j := i; j > a && data.Less(j, j-1); j-- { data.Swap(j, j-1) }
InsertionInner(key, rows, j, a) ==
    IF j > a
    THEN LET l == Less(key, rows, j, j - 1) IN
         IF l = "panic" THEN [rows |-> rows, panic |-> TRUE]
         ELSE IF l = "true" THEN InsertionInner(key, Swap(rows, j, j - 1), j - 1, a)
         ELSE [rows |-> rows, panic |-> FALSE]
    ELSE [rows |-> rows, panic |-> FALSE]

RECURSIVE InsertionSort(_, _, _, _, _)
\* for i := a + 1; i < b; i++ { ... }
InsertionSort(key, st, i, a, b) ==
    IF st.panic \/ i >= b THEN st
    ELSE InsertionSort(key, InsertionInner(key, st.rows, i, a), i + 1, a, b)

\* sort.SliceStable(t.rows, less): below 20 elements the standard library's
\* stable sort is one insertion sort of the whole slice
SliceStable(key, rows) ==
    InsertionSort(key, [rows |-> rows, panic |-> FALSE], 1, 0, Len(rows))

\* SortBy(columnIndex, cmpFn) with columnIndex > len(t.header) for >=
SortByOffByOne(t, columnIndex, cmpFn) ==
    IF columnIndex < 0 \/ columnIndex > Len(t.header)
    THEN [t |-> t, err |-> "error", panic |-> FALSE]
    ELSE LET st == SliceStable([kind |-> "SortBy", columnIndex |-> columnIndex,
                                cmpFn |-> cmpFn], t.rows)
         IN  [t |-> [t EXCEPT !.rows = st.rows], err |-> "nil", panic |-> st.panic]

\* SortBy(columnIndex, cmpFn): the table, the error and whether it panicked
SortBy(t, columnIndex, cmpFn) ==
    IF columnIndex < 0 \/ columnIndex >= Len(t.header)
    THEN [t |-> t, err |-> "error", panic |-> FALSE]
    ELSE LET st == SliceStable([kind |-> "SortBy", columnIndex |-> columnIndex,
                                cmpFn |-> cmpFn], t.rows)
         IN  [t |-> [t EXCEPT !.rows = st.rows], err |-> "nil", panic |-> st.panic]

\* SortByMultiple(criteria) that first pads every stored row to the header's
\* length
SortByMultiplePadsRows(t, criteria) ==
    IF \E c \in 1..Len(criteria) :
           criteria[c].ColumnIndex < 0 \/ criteria[c].ColumnIndex >= Len(t.header)
    THEN [t |-> t, err |-> "error", panic |-> FALSE]
    ELSE LET padded == [r \in 1..Len(t.rows) |->
                           [j \in 1..max(Len(t.header), Len(t.rows[r])) |->
                               IF j <= Len(t.rows[r]) THEN t.rows[r][j] ELSE <<>>]]
             st == SliceStable([kind |-> "SortByMultiple", criteria |-> criteria], padded)
         IN  [t |-> [t EXCEPT !.rows = st.rows], err |-> "nil", panic |-> st.panic]

\* SortByMultiple(criteria)
SortByMultiple(t, criteria) ==
    IF \E c \in 1..Len(criteria) :
           criteria[c].ColumnIndex < 0 \/ criteria[c].ColumnIndex >= Len(t.header)
    THEN [t |-> t, err |-> "error", panic |-> FALSE]
    ELSE LET st == SliceStable([kind |-> "SortByMultiple", criteria |-> criteria], t.rows)
         IN  [t |-> [t EXCEPT !.rows = st.rows], err |-> "nil", panic |-> st.panic]

---------------------------------------------------------------------------
(* Transposer.                                                             *)

\* Transpose indexes t.header[0] and t.rows[i][0] without a check
TransposePanics(t) ==
    \/ Len(t.header) = 0
    \/ \E i \in 1..Len(t.rows) : Len(t.rows[i]) = 0

\* Transpose() without newRows[i][0] = header
TransposeNoLabel(t) ==
    LET newHeader == <<t.header[1]>> \o [i \in 1..Len(t.rows) |-> t.rows[i][1]]
        newRows ==
            [i \in 1..(Len(t.header) - 1) |->
                [j \in 1..(Len(t.rows) + 1) |->
                    IF j = 1 THEN <<>>
                    ELSE IF i + 1 <= Len(t.rows[j - 1])
                         THEN t.rows[j - 1][i + 1]
                         ELSE <<>>]]
    IN  [header |-> newHeader,
         rows |-> newRows,
         widths |-> <<>>,
         Padding |-> t.Padding,
         Width |-> t.Width,
         HeaderSeparatorRune |-> t.HeaderSeparatorRune,
         PrintHeaders |-> t.PrintHeaders]

\* Transpose(): the new table
Transpose(t) ==
    LET newHeader == <<t.header[1]>> \o [i \in 1..Len(t.rows) |-> t.rows[i][1]]
        newRows ==
            [i \in 1..(Len(t.header) - 1) |->
                [j \in 1..(Len(t.rows) + 1) |->
                    IF j = 1 THEN t.header[i + 1]
                    ELSE IF i + 1 <= Len(t.rows[j - 1])
                         THEN t.rows[j - 1][i + 1]
                         ELSE <<>>]]
    IN  [header |-> newHeader,
         rows |-> newRows,
         widths |-> <<>>,
         Padding |-> t.Padding,
         Width |-> t.Width,
         HeaderSeparatorRune |-> t.HeaderSeparatorRune,
         PrintHeaders |-> t.PrintHeaders]

---------------------------------------------------------------------------
(* Exporters.                                                              *)

\* m[k] = v on a Go map
Put(m, k, v) == [x \in DOMAIN m \cup {k} |-> IF x = k THEN v ELSE m[x]]

\* a Go map with no key
EmptyMap == [x \in {} |-> <<>>]

RECURSIVE RowMapFrom(_, _, _, _)
\* the loop of ExportJSON over t.header from index i (from 1): rowMap[col] = ...
RowMapFrom(t, row, i, rowMap) ==
    IF i > Len(t.header) THEN rowMap
    ELSE RowMapFrom(t, row, i + 1,
                    Put(rowMap, t.header[i], IF i <= Len(row) THEN row[i] ELSE <<>>))

\* the rowMap ExportJSON builds for row
RowMap(t, row) == RowMapFrom(t, row, 1, EmptyMap)

RECURSIVE ExportJSONDataKeepFirst(_, _, _, _)
\* the loop of ExportJSON over t.rows with `if _, ok := data[key]; ok { continue }`
ExportJSONDataKeepFirst(t, keyColumn, rows, data) ==
    IF rows = <<>> THEN [err |-> "nil", data |-> data]
    ELSE IF keyColumn >= Len(Head(rows)) THEN [err |-> "error", data |-> data]
    ELSE ExportJSONDataKeepFirst(t, keyColumn, Tail(rows),
             IF Head(rows)[keyColumn + 1] \in DOMAIN data THEN data
             ELSE Put(data, Head(rows)[keyColumn + 1], RowMap(t, Head(rows))))

RECURSIVE ExportJSONData(_, _, _, _)
\* the loop of ExportJSON over t.rows: the error of a row without the key cell,
\* or data[key] = rowMap
ExportJSONData(t, keyColumn, rows, data) ==
    IF rows = <<>> THEN [err |-> "nil", data |-> data]
    ELSE IF keyColumn >= Len(Head(rows)) THEN [err |-> "error", data |-> data]
    ELSE ExportJSONData(t, keyColumn, Tail(rows),
                        Put(data, Head(rows)[keyColumn + 1], RowMap(t, Head(rows))))

\* the digit d of "0123456789abcdef"
HexDigit(d) == IF d < 10 THEN 48 + d ELSE 87 + d

\* encoding/json on one rune of a string: \" \\ \n \r \t, \u00xx for < > &,
\* the rune itself otherwise (no other control character is modelled)
EncodeRune(c) ==
    IF c = 34 THEN <<92, 34>>
    ELSE IF c = 92 THEN <<92, 92>>
    ELSE IF c = 10 THEN <<92, 110>>
    ELSE IF c = 13 THEN <<92, 114>>
    ELSE IF c = 9 THEN <<92, 116>>
    ELSE IF c \in {60, 62, 38} THEN <<92, 117, 48, 48, HexDigit(c \div 16), HexDigit(c % 16)>>
    ELSE <<c>>

\* encoding/json on a string
EncodeString(str) == <<34>> \o Concat([i \in 1..Len(str) |-> EncodeRune(str[i])]) \o <<34>>

RECURSIVE SortedKeys(_)
\* the keys of a map in the order encoding/json writes them
SortedKeys(S) ==
    IF S = {} THEN <<>>
    ELSE LET k == CHOOSE x \in S : \A y \in S \ {x} : StringLess(x, y)
         IN  <<k>> \o SortedKeys(S \ {k})

\* the members of a JSON object, separated by commas, between braces
EncodeObject(members) ==
    <<123>> \o Concat([i \in 1..Len(members) |->
                          (IF i > 1 THEN <<44>> ELSE <<>>) \o members[i]]) \o <<125>>

\* json.Marshal on a map[string]string
MarshalRowMap(rowMap) ==
    LET keys == SortedKeys(DOMAIN rowMap) IN
    EncodeObject([i \in 1..Len(keys) |->
                     EncodeString(keys[i]) \o <<58>> \o EncodeString(rowMap[keys[i]])])

\* json.Marshal(data)
Marshal(data) ==
    LET keys == SortedKeys(DOMAIN data) IN
    EncodeObject([i \in 1..Len(keys) |->
                     EncodeString(keys[i]) \o <<58>> \o MarshalRowMap(data[keys[i]])])

\* ExportJSON(keyColumn) with `continue` for the error of a row without the key cell
ExportJSONSkipShort(t, keyColumn) ==
    IF keyColumn < 0 \/ keyColumn >= Len(t.header)
    THEN [err |-> "error", writes |-> <<>>]
    ELSE LET kept == SelectSeq(t.rows, LAMBDA row : keyColumn < Len(row))
             res == ExportJSONData(t, keyColumn, kept, EmptyMap)
         IN  [err |-> "nil", writes |-> <<Marshal(res.data)>>]

\* ExportJSON(keyColumn): the error returned and the Write calls
ExportJSON(t, keyColumn) ==
    IF keyColumn < 0 \/ keyColumn >= Len(t.header)
    THEN [err |-> "error", writes |-> <<>>]
    ELSE LET res == ExportJSONData(t, keyColumn, t.rows, EmptyMap) IN
         IF res.err # "nil" THEN [err |-> "error", writes |-> <<>>]
         ELSE [err |-> "nil", writes |-> <<Marshal(res.data)>>]

\* csv.Writer.fieldNeedsQuotes(field), Comma ','
fieldNeedsQuotes(field) ==
    IF field = <<>> THEN FALSE
    ELSE IF field = <<92, 46>> THEN TRUE
    ELSE IF \E i \in 1..Len(field) : field[i] \in {10, 13, 34, 44} THEN TRUE
    ELSE field[1] \in {9, 10, 11, 12, 13, SP}

\* a field as csv.Writer.Write writes it, UseCRLF false
WriteField(field) ==
    IF ~fieldNeedsQuotes(field) THEN field
    ELSE <<34>> \o Concat([i \in 1..Len(field) |->
                             IF field[i] = 34 THEN <<34, 34>> ELSE <<field[i]>>]) \o <<34>>

\* csv.Writer.Write(record)
WriteRecord(record) ==
    Concat([n \in 1..Len(record) |->
               (IF n > 1 THEN <<44>> ELSE <<>>) \o WriteField(record[n])]) \o <<NL>>

\* ExportCSV() without the padding of the rows shorter than the header
ExportCSVNoPad(t) ==
    [err |-> "nil",
     writes |-> <<WriteRecord(t.header)
                   \o Concat([r \in 1..Len(t.rows) |-> WriteRecord(t.rows[r])])>>]

\* ExportCSV(): the error returned and the Write calls; the csv.Writer buffers
\* the records and its deferred Flush hands them to t.Writer in one Write
ExportCSV(t) ==
    LET padded(row) ==
            IF Len(row) < Len(t.header)
            THEN [i \in 1..Len(t.header) |-> IF i <= Len(row) THEN row[i] ELSE <<>>]
            ELSE row
    IN  [err |-> "nil",
         writes |-> <<WriteRecord(t.header)
                       \o Concat([r \in 1..Len(t.rows) |-> WriteRecord(padded(t.rows[r]))])>>]

---------------------------------------------------------------------------
(* The values the calls are made with.                                     *)

StrVal(s) == [kind |-> "string", s |-> s]

IntVal(i) == [kind |-> "int", i |-> i]

\* "a", "b", "a\nb", "b\n\na"
ValA == StrVal(<<97>>)
ValB == StrVal(<<98>>)
ValAB == StrVal(<<97, NL, 98>>)
ValBA == StrVal(<<98, NL, NL, 97>>)

\* the arguments of New: "H"; "Name" and 10
NewInputs ==
    { <<StrVal(<<72>>)>>, <<StrVal(<<78, 97, 109, 101>>), IntVal(10)>> }

\* the arguments of WithPadding, WithPrintHeaders and WithHeaderSeparatorRow
\* chained on New
ConfigInputs ==
    { [p |-> DefaultPadding, b |-> TRUE, r |-> 0, w |-> "DefaultWidthFunc"],
      [p |-> -1, b |-> TRUE, r |-> 45, w |-> "DefaultWidthFunc"],
      [p |-> 1, b |-> FALSE, r |-> 45, w |-> "DefaultWidthFunc"],
      [p |-> 1, b |-> TRUE, r |-> 19968, w |-> "WideRuneWidth"] }

\* the arguments of AddHeader
AddHeaderInputs == { <<75>> }

\* the arguments of AddHeaders
AddHeadersInputs == { << <<75>> >> }

\* the arguments of AddHeadersAsArray
AddHeadersAsArrayInputs == { << <<75>> >> }

\* the arguments of AddRow
AddRowInputs ==
    { <<ValB>>, <<ValA, ValB>>, <<ValAB, IntVal(7)>>, <<ValA, ValB, ValBA>> }

\* the arguments of AddRowAsArray
AddRowAsArrayInputs == { <<>>, <<ValA, ValB>> }

\* the cells "a", "b" and "bb"
CellA == <<97>>
CellB == <<98>>
CellBB == <<98, 98>>

\* the arguments of SetRows: no row, rows with no and with one cell, rows
\* of two cells, a row of four cells
SetRowsInputs ==
    { <<>>,
      << <<>>, <<CellA>> >>,
      << <<CellBB>>, <<CellA, CellB>> >>,
      << <<CellB>>, <<CellA>>, <<CellB>> >>,
      << <<CellB, CellB>>, <<CellA, CellBB>>, <<CellB, CellA>> >>,
      << <<CellA, CellB, CellA, CellB>> >> }

\* the ComparisonFunc values passed to the sorter
CmpInputs == { StringCmp, InverseComparison(StringCmp) }

\* the column indexes passed to the sorter and in its criteria
ColumnInputs == -1..1

Criteria == [ColumnIndex : ColumnInputs, Compare : CmpInputs]

\* the criteria lists passed to SortByMultiple
CriteriaInputs ==
    { <<>> } \cup { <<c>> : c \in Criteria } \cup { <<c, d>> : c \in Criteria, d \in Criteria }

---------------------------------------------------------------------------
(* The calls.                                                              *)

Call(op, k) == [op |-> op, k |-> k, arg |-> <<>>]

\* a call of the sorter, with its arguments
SortCall(op, k, arg) == [op |-> op, k |-> k, arg |-> arg]

\* a call that returns no error, writes nothing and cannot panic
Mutate(k, t, call) ==
    /\ tables' = [tables EXCEPT ![k] = t]
    /\ out' = <<>>
    /\ err' = "none"
    /\ fault' = FALSE
    /\ last' = call

DoAddHeader(k, col) ==
    /\ ~fault
    /\ Len(tables[k].header) < MaxCols
    /\ Mutate(k, AddHeader(tables[k], col), Call("AddHeader", k))

DoAddHeaders(k, cols) ==
    /\ ~fault
    /\ Len(tables[k].header) + Len(cols) <= MaxCols
    /\ Mutate(k, AddHeaders(tables[k], cols), Call("AddHeaders", k))

DoAddHeadersAsArray(k, cols) ==
    /\ ~fault
    /\ Len(tables[k].header) + Len(cols) <= MaxCols
    /\ Mutate(k, AddHeadersAsArray(tables[k], cols), Call("AddHeadersAsArray", k))

DoAddRow(k, vals) ==
    /\ ~fault
    /\ Len(tables[k].rows) + MaxNumNewlines(vals) + 1 <= MaxRows
    /\ Mutate(k, AddRow(tables[k], vals), Call("AddRow", k))

DoAddRowAsArray(k, vals) ==
    /\ ~fault
    /\ Len(tables[k].rows) + MaxNumNewlines(vals) + 1 <= MaxRows
    /\ Mutate(k, AddRowAsArray(tables[k], vals), Call("AddRowAsArray", k))

DoSetRows(k, rows) ==
    /\ ~fault
    /\ Len(rows) <= MaxRows
    /\ Mutate(k, SetRows(tables[k], rows), Call("SetRows", k))

DoPrint(k) ==
    /\ ~fault
    /\ IF calculateWidthsPanics(tables[k])
       THEN /\ fault' = TRUE
            /\ out' = <<>>
            /\ UNCHANGED tables
       ELSE /\ fault' = FALSE
            /\ tables' = [tables EXCEPT ![k] = PrintTable(@).t]
            /\ out' = PrintTable(tables[k]).writes
    /\ err' = "none"
    /\ last' = Call("Print", k)

\* a call of the sorter with result res
Sorted(k, res, call) ==
    /\ tables' = [tables EXCEPT ![k] = res.t]
    /\ out' = <<>>
    /\ err' = IF res.panic THEN "none" ELSE res.err
    /\ fault' = res.panic
    /\ last' = call

DoSortBy(k, columnIndex, cmpFn) ==
    /\ ~fault
    /\ Sorted(k, SortBy(tables[k], columnIndex, cmpFn),
              SortCall("SortBy", k, [columnIndex |-> columnIndex, cmpFn |-> cmpFn]))

DoSortByMultiple(k, criteria) ==
    /\ ~fault
    /\ Sorted(k, SortByMultiple(tables[k], criteria),
              SortCall("SortByMultiple", k, criteria))

\* r := s.Transpose() with newHeader := t.header[:1] for make([]string, 0):
\* the appends write the rows' first cells into the source's header
DoTransposeAliasHeader(k) ==
    /\ ~fault
    /\ IF TransposePanics(tables[k])
       THEN /\ fault' = TRUE
            /\ UNCHANGED tables
       ELSE /\ fault' = FALSE
            /\ tables' = [x \in DOMAIN tables \cup {"r"} |->
                              IF x = "r" THEN Transpose(tables[k])
                              ELSE IF x = k
                              THEN [tables[k] EXCEPT !.header =
                                      [j \in 1..Len(tables[k].header) |->
                                          IF j > 1 /\ j <= Len(tables[k].rows) + 1
                                          THEN tables[k].rows[j - 1][1]
                                          ELSE tables[k].header[j]]]
                              ELSE tables[x]]
    /\ out' = <<>>
    /\ err' = "none"
    /\ last' = Call("Transpose", k)

\* r := s.Transpose()
DoTranspose(k) ==
    /\ ~fault
    /\ IF TransposePanics(tables[k])
       THEN /\ fault' = TRUE
            /\ UNCHANGED tables
       ELSE /\ fault' = FALSE
            /\ tables' = [x \in DOMAIN tables \cup {"r"} |->
                              IF x = "r" THEN Transpose(tables[k]) ELSE tables[x]]
    /\ out' = <<>>
    /\ err' = "none"
    /\ last' = Call("Transpose", k)

---------------------------------------------------------------------------
(* One table from New on.                                                  *)

\* s := New(h...).WithPadding(p).WithPrintHeaders(b).WithHeaderSeparatorRow(r)
\*          .WithWidthFunc(w)
Init ==
    /\ \E h \in NewInputs, c \in ConfigInputs :
           tables = [x \in {"s"} |->
                        WithWidthFunc(
                            WithHeaderSeparatorRow(
                                WithPrintHeaders(WithPadding(New(h), c.p), c.b), c.r),
                            c.w)]
    /\ out = <<>>
    /\ err = "none"
    /\ fault = FALSE
    /\ last = Call("New", "s")

Next ==
    \/ \E col \in AddHeaderInputs : DoAddHeader("s", col)
    \/ \E cols \in AddHeadersInputs : DoAddHeaders("s", cols)
    \/ \E cols \in AddHeadersAsArrayInputs : DoAddHeadersAsArray("s", cols)
    \/ \E vals \in AddRowInputs : DoAddRow("s", vals)
    \/ \E vals \in AddRowAsArrayInputs : DoAddRowAsArray("s", vals)
    \/ \E rows \in SetRowsInputs : DoSetRows("s", rows)
    \/ DoPrint("s")

Spec == Init /\ [][Next]_vars

---------------------------------------------------------------------------
(* The sorter, on a table loaded by SetRows.                               *)

\* the rows SetRows loads: two cells with ties in either column, one cell
SortRowValues ==
    { <<CellA, CellB>>, <<CellA, CellA>>, <<CellB, CellA>>, <<CellB>> }

SortRowsInputs == UNION { [1..n -> SortRowValues] : n \in 0..MaxRows }

\* s := New(h...); s.SetRows(rows)
InitSort ==
    /\ \E h \in NewInputs, rows \in SortRowsInputs :
           tables = [x \in {"s"} |-> SetRows(New(h), rows)]
    /\ out = <<>>
    /\ err = "none"
    /\ fault = FALSE
    /\ last = Call("SetRows", "s")

NextSort ==
    \/ \E col \in AddHeaderInputs : DoAddHeader("s", col)
    \/ \E n \in ColumnInputs, cmp \in CmpInputs : DoSortBy("s", n, cmp)
    \/ \E criteria \in CriteriaInputs : DoSortByMultiple("s", criteria)

SpecSort == InitSort /\ [][NextSort]_vars

---------------------------------------------------------------------------
(* The transposer, on a table loaded by SetRows.                           *)

\* the arguments of New: "H"; "H", "K" and "L"
TransposeNewInputs ==
    { <<StrVal(<<72>>)>>, <<StrVal(<<72>>), StrVal(<<75>>), StrVal(<<76>>)>> }

\* the arguments of SetRows: no row; full rows; a short row; a row with no
\* cell; rows of one cell; a row of four cells
TransposeRowsInputs ==
    { <<>>,
      << <<CellA, CellB, CellBB>>, <<CellB, CellA, CellA>> >>,
      << <<CellB, CellA, CellBB>>, <<CellA, CellB>> >>,
      << <<>>, <<CellA>> >>,
      << <<CellA>>, <<CellB>>, <<CellA>> >>,
      << <<CellA, CellB, CellA, CellB>> >> }

\* the configurations chained on New
PairConfigInputs ==
    { [p |-> DefaultPadding, b |-> TRUE, r |-> 0], [p |-> -1, b |-> FALSE, r |-> 45] }

\* s := New(h...), configured as in Init; s.SetRows(rows)
InitTranspose ==
    /\ \E h \in TransposeNewInputs, c \in PairConfigInputs, rows \in TransposeRowsInputs :
           tables = [x \in {"s"} |->
                        SetRows(WithHeaderSeparatorRow(
                                    WithPrintHeaders(WithPadding(New(h), c.p), c.b), c.r),
                                rows)]
    /\ out = <<>>
    /\ err = "none"
    /\ fault = FALSE
    /\ last = Call("SetRows", "s")

NextTranspose ==
    \/ DoTranspose("s")
    \/ \E rows \in TransposeRowsInputs : DoSetRows("s", rows)

SpecTranspose == InitTranspose /\ [][NextTranspose]_vars

---------------------------------------------------------------------------
(* The transposer, applied to a table and then to the result.              *)

\* the arguments of New: "H"; "H" and "K"; "H", "K" and "L"
TwiceNewInputs ==
    { <<StrVal(<<72>>)>>,
      <<StrVal(<<72>>), StrVal(<<75>>)>>,
      <<StrVal(<<72>>), StrVal(<<75>>), StrVal(<<76>>)>> }

\* the arguments of SetRows: those of the transposer, rows of two cells, some
\* of them equal or empty, and three full rows
TwiceRowsInputs ==
    TransposeRowsInputs \cup
    { << <<CellA, CellB>>, <<CellA, CellB>> >>,
      << << <<>>, CellA>>, <<CellB, <<>> >> >>,
      << <<CellB, CellA, CellA>>, <<CellA, CellBB, CellB>>, <<CellA, CellA, CellA>> >> }

\* s := New(h...), configured as in Init; s.SetRows(rows)
InitTwice ==
    /\ \E h \in TwiceNewInputs, c \in PairConfigInputs, rows \in TwiceRowsInputs :
           tables = [x \in {"s"} |->
                        SetRows(WithHeaderSeparatorRow(
                                    WithPrintHeaders(WithPadding(New(h), c.p), c.b), c.r),
                                rows)]
    /\ out = <<>>
    /\ err = "none"
    /\ fault = FALSE
    /\ last = Call("SetRows", "s")

\* r := s.Transpose(); r = r.Transpose(); s.SetRows(rows)
NextTwice ==
    \/ DoTranspose("s")
    \/ "r" \in DOMAIN tables /\ DoTranspose("r")
    \/ \E rows \in TwiceRowsInputs : DoSetRows("s", rows)

SpecTwice == InitTwice /\ [][NextTwice]_vars

---------------------------------------------------------------------------
(* Every operation, on a table and on its transposition.                   *)

\* in this specification a table is not grown past MaxPairRows stored rows
MaxPairRows == 2

\* the arguments of New: "H" and "K"
PairNewInputs == { <<StrVal(<<72>>), StrVal(<<75>>)>> }

\* the arguments of SetRows: a row of two cells and a row of one
PairSetRowsInputs == { << <<CellB, CellA>>, <<CellA>> >> }

\* the arguments of AddRow
PairAddRowInputs == { <<ValA, ValB>> }

\* the arguments of SortBy
PairSortByInputs == { [columnIndex |-> 0, cmpFn |-> StringCmp] }

\* the arguments of SortByMultiple
PairCriteriaInputs ==
    { <<[ColumnIndex |-> 0, Compare |-> InverseComparison(StringCmp)]>> }

\* s := New(h...), configured as in Init
InitPair ==
    /\ \E h \in PairNewInputs, c \in PairConfigInputs :
           tables = [x \in {"s"} |->
                        WithHeaderSeparatorRow(
                            WithPrintHeaders(WithPadding(New(h), c.p), c.b), c.r)]
    /\ out = <<>>
    /\ err = "none"
    /\ fault = FALSE
    /\ last = Call("New", "s")

PairAddRow(k, vals) ==
    /\ Len(tables[k].rows) < MaxPairRows
    /\ DoAddRow(k, vals)

PairSetRows(k, rows) ==
    /\ Len(rows) <= MaxPairRows
    /\ DoSetRows(k, rows)

NextPair ==
    \/ DoTranspose("s")
    \/ \E k \in DOMAIN tables, col \in AddHeaderInputs : DoAddHeader(k, col)
    \/ \E k \in DOMAIN tables, vals \in PairAddRowInputs : PairAddRow(k, vals)
    \/ \E k \in DOMAIN tables, rows \in PairSetRowsInputs : PairSetRows(k, rows)
    \/ \E k \in DOMAIN tables : DoPrint(k)
    \/ \E k \in DOMAIN tables, a \in PairSortByInputs : DoSortBy(k, a.columnIndex, a.cmpFn)
    \/ \E k \in DOMAIN tables, criteria \in PairCriteriaInputs : DoSortByMultiple(k, criteria)

SpecPair == InitPair /\ [][NextPair]_vars

---------------------------------------------------------------------------
(* The exporters, on a table loaded by SetRows.                            *)

\* "", "a,b", "\"", "a\n", " a"
CellEmpty == <<>>
CellComma == <<97, 44, 98>>
CellQuote == <<34>>
CellNL == <<97, NL>>
CellSpace == <<SP, 97>>

\* the arguments of New: "K"; "N<" and 10
ExportNewInputs == { <<StrVal(<<75>>)>>, <<StrVal(<<78, 60>>), IntVal(10)>> }

\* the arguments of SetRows: no row; distinct keys; a key twice and a short
\* row; cells that need quoting; a row with no cell; empty cells
ExportRowsInputs ==
    { <<>>,
      << <<CellA, CellB>>, <<CellB, CellA>> >>,
      << <<CellA, CellB>>, <<CellA, CellBB>>, <<CellB>> >>,
      << <<CellComma, CellQuote>>, <<CellNL, CellSpace>> >>,
      << <<>>, <<CellA>> >>,
      << <<CellEmpty>>, <<CellA, CellEmpty>> >> }

\* the arguments of ExportJSON
KeyColumnInputs == -1..MaxCols

\* err := t.ExportJSON(keyColumn)
DoExportJSON(k, keyColumn) ==
    /\ ~fault
    /\ out' = ExportJSON(tables[k], keyColumn).writes
    /\ err' = ExportJSON(tables[k], keyColumn).err
    /\ last' = SortCall("ExportJSON", k, keyColumn)
    /\ UNCHANGED <<tables, fault>>

\* err := t.ExportCSV()
DoExportCSV(k) ==
    /\ ~fault
    /\ out' = ExportCSV(tables[k]).writes
    /\ err' = ExportCSV(tables[k]).err
    /\ last' = Call("ExportCSV", k)
    /\ UNCHANGED <<tables, fault>>

\* s := New(h...); s.SetRows(rows)
InitExport ==
    /\ \E h \in ExportNewInputs, rows \in ExportRowsInputs :
           tables = [x \in {"s"} |-> SetRows(New(h), rows)]
    /\ out = <<>>
    /\ err = "none"
    /\ fault = FALSE
    /\ last = Call("SetRows", "s")

NextExport ==
    \/ \E col \in AddHeaderInputs : DoAddHeader("s", col)
    \/ \E rows \in ExportRowsInputs : DoSetRows("s", rows)
    \/ \E keyColumn \in KeyColumnInputs : DoExportJSON("s", keyColumn)
    \/ DoExportCSV("s")

SpecExport == InitExport /\ [][NextExport]_vars

---------------------------------------------------------------------------
(* The comparators, called on two cells.                                   *)

\* the cells compared: "", "bad", "true", "false", "T", "0", "1", "5", "10", "-5", "1.5", "1.50", "$1,000.5", "$5", "5%", "10%"
CompareCells ==
    { <<>>,
      <<98, 97, 100>>,
      <<116, 114, 117, 101>>,
      <<102, 97, 108, 115, 101>>,
      <<84>>,
      <<48>>,
      <<49>>,
      <<53>>,
      <<49, 48>>,
      <<45, 53>>,
      <<49, 46, 53>>,
      <<49, 46, 53, 48>>,
      <<36, 49, 44, 48, 48, 48, 46, 53>>,
      <<36, 53>>,
      <<53, 37>>,
      <<49, 48, 37>> }

\* the library functions of C16
ParsingComparators ==
    {"BoolComparison", "NumericalComparison", "CurrencyComparison", "PercentComparison"}

\* a call of a comparator, with its arguments and the value it returned
CompareCall(fn, a, b, ret) == [op |-> fn, k |-> "s", arg |-> <<a, b>>, ret |-> ret]

\* fn(a, b)
DoCompare(fn, a, b) ==
    /\ ~fault
    /\ last' = CompareCall(fn, a, b, Library(fn, a, b))
    /\ out' = <<>>
    /\ err' = "none"
    /\ UNCHANGED <<tables, fault>>

\* s := New("H")
InitCompare ==
    /\ tables = [x \in {"s"} |-> New(<<StrVal(<<72>>)>>)]
    /\ out = <<>>
    /\ err = "none"
    /\ fault = FALSE
    /\ last = Call("New", "s")

NextCompare ==
    \E fn \in ParsingComparators, a \in CompareCells, b \in CompareCells : DoCompare(fn, a, b)

SpecCompare == InitCompare /\ [][NextCompare]_vars

---------------------------------------------------------------------------
(* One table handle from New on, through every operation that stores rows  *)
(* or header cells.                                                        *)

\* the arguments of AddRow and AddRowAsArray
ReachAddRowInputs == { <<ValA, ValB, ValBA>>, <<ValB>> }

\* the arguments of SetRows
ReachSetRowsInputs ==
    { << <<>>, <<CellA>> >>, << <<CellA, CellB, CellA, CellB>>, <<CellB, CellA>> >> }

\* t = t.Transpose()
DoTransposeAssign(k) ==
    /\ ~fault
    /\ Len(tables[k].rows) + 1 <= MaxCols
    /\ IF TransposePanics(tables[k])
       THEN /\ fault' = TRUE
            /\ UNCHANGED tables
       ELSE /\ fault' = FALSE
            /\ tables' = [tables EXCEPT ![k] = Transpose(@)]
    /\ out' = <<>>
    /\ err' = "none"
    /\ last' = Call("Transpose", k)

\* s := New(h...)
InitReach ==
    /\ \E h \in NewInputs : tables = [x \in {"s"} |-> New(h)]
    /\ out = <<>>
    /\ err = "none"
    /\ fault = FALSE
    /\ last = Call("New", "s")

NextReach ==
    \/ \E col \in AddHeaderInputs : DoAddHeader("s", col)
    \/ \E cols \in AddHeadersInputs : DoAddHeaders("s", cols)
    \/ \E cols \in AddHeadersAsArrayInputs : DoAddHeadersAsArray("s", cols)
    \/ \E vals \in ReachAddRowInputs : DoAddRow("s", vals)
    \/ \E vals \in ReachAddRowInputs : DoAddRowAsArray("s", vals)
    \/ \E rows \in ReachSetRowsInputs : DoSetRows("s", rows)
    \/ \E a \in PairSortByInputs : DoSortBy("s", a.columnIndex, a.cmpFn)
    \/ \E criteria \in PairCriteriaInputs : DoSortByMultiple("s", criteria)
    \/ DoTransposeAssign("s")
    \/ DoPrint("s")

SpecReach == InitReach /\ [][NextReach]_vars

---------------------------------------------------------------------------
(* Vocabulary of the properties.                                           *)

\* the largest element of a non-empty set of numbers
MaxOf(S) == CHOOSE x \in S : \A y \in S : y <= x

\* the positions that bound the lines of s: before it, its line breaks, after it
Bounds(s) == {0, Len(s) + 1} \cup {p \in 1..Len(s) : s[p] = NL}

\* the number of line breaks in s
LineBreaks(s) == Cardinality(Bounds(s)) - 2

\* the i-th bound of s, i from 0
BoundAt(s, i) == CHOOSE p \in Bounds(s) : Cardinality({q \in Bounds(s) : q < p}) = i

\* line i of s, i from 0; the empty string when s has fewer lines
LineOf(s, i) ==
    IF i > LineBreaks(s) THEN <<>>
    ELSE SubSeq(s, BoundAt(s, i) + 1, BoundAt(s, i + 1) - 1)

\* the cells of column j (from 1) that the rows store
ColumnCells(t, j) == {t.rows[r][j] : r \in {x \in 1..Len(t.rows) : j <= Len(t.rows[x])}}

\* the width the specification gives column j
SpecWidth(t, j) ==
    t.Padding + MaxOf({Width(t, t.header[j])} \cup {Width(t, c) : c \in ColumnCells(t, j)})

\* the slice of a written line that column j occupies under widths
Field(line, widths, j) ==
    LET off == SumSeq(SubSeq(widths, 1, j - 1)) IN
    IF off + widths[j] <= Len(line) THEN SubSeq(line, off + 1, off + widths[j]) ELSE <<-1>>

\* s followed by spaces up to width w
Padded(t, s, w) == s \o Spaces(w - Width(t, s))

\* the number of lines Print writes before the first data row
HeadLines(t) ==
    IF t.PrintHeaders THEN (IF t.HeaderSeparatorRune # 0 THEN 2 ELSE 1) ELSE 0

\* the latest call was op and it returned
Returned(op) == last.op = op /\ ~fault

---------------------------------------------------------------------------
(* Properties of the row store and the renderer.                           *)

\* C1: after every Print, the width of each column is Padding plus the
\* largest metric among its header and its stored cells, and every header
\* cell and every stored data cell is written followed by spaces up to
\* exactly that width.
PrintWidths ==
    Returned("Print") =>
        LET t == tables[last.k] IN
        /\ Len(t.widths) = Len(t.header)
        /\ \A j \in 1..Len(t.header) : t.widths[j] = SpecWidth(t, j)
        /\ t.PrintHeaders =>
               \A j \in 1..Len(t.header) :
                   /\ Field(out[1], t.widths, j) = Padded(t, t.header[j], t.widths[j])
                   /\ Width(t, Field(out[1], t.widths, j)) = SpecWidth(t, j)
        /\ Len(out) = HeadLines(t) + Len(t.rows)
        /\ \A r \in 1..Len(t.rows) : \A j \in 1..Len(t.rows[r]) :
               /\ Field(out[HeadLines(t) + r], t.widths, j)
                      = Padded(t, t.rows[r][j], t.widths[j])
               /\ Width(t, Field(out[HeadLines(t) + r], t.widths, j)) = SpecWidth(t, j)

\* a Print of two or more rows, one of them shorter than the header, in
\* which one column is wider than its header needs and another is not
PrintWidthsWitness ==
    /\ Returned("Print")
    /\ LET t == tables[last.k] IN
       /\ t.PrintHeaders
       /\ Len(t.rows) >= 2
       /\ \E r \in 1..Len(t.rows) : Len(t.rows[r]) < Len(t.header)
       /\ \E j \in 1..Len(t.header) : t.widths[j] > t.Padding + Width(t, t.header[j])
       /\ \E j \in 1..Len(t.header) :
              /\ ColumnCells(t, j) # {}
              /\ t.widths[j] = t.Padding + Width(t, t.header[j])

\* what C6 says of one AddRow(vals) that takes table t to table u
AddRowPost(t, u, vals) ==
    LET C == Len(t.header)
        N == Len(t.rows)
        m == MaxOf({0} \cup {LineBreaks(Sprint(vals[j])) : j \in 1..Len(vals)})
    IN  /\ u.header = t.header
        /\ Len(u.rows) = N + 1 + m
        /\ SubSeq(u.rows, 1, N) = t.rows
        /\ \A i \in 0..m :
               /\ Len(u.rows[N + 1 + i]) = C
               /\ \A j \in 1..C :
                      u.rows[N + 1 + i][j] =
                          IF j <= Len(vals) THEN LineOf(Sprint(vals[j]), i) ELSE <<>>

\* C6: one AddRow appends 1 + m rows of C cells, m the largest number of
\* line breaks in any value of the call; cell j of the i-th appended row is
\* line i of value j or empty; values past the header are not stored; the
\* rows stored before are unchanged.
AddRowAppends ==
    [][last'.op \in {"AddRow", "AddRowAsArray"} =>
          \A k \in DOMAIN tables : \A vals \in AddRowInputs \cup AddRowAsArrayInputs :
              (DoAddRow(k, vals) \/ DoAddRowAsArray(k, vals))
                  => AddRowPost(tables[k], tables'[k], vals)]_vars

\* an AddRow of "a\nb" and 7 after a stored row: two rows appended
AddRowAppendsWitness ==
    /\ last.op = "AddRow"
    /\ LET t == tables[last.k] IN
       /\ Len(t.rows) = 3
       /\ t.rows[2] = <<CellA, <<55>>>>
       /\ t.rows[3] = <<CellB, <<>>>>

\* C7: Print writes a stored row that is shorter than the header as C
\* cells, the missing ones as empty strings padded to their column's width.
ShortRowsRenderedEmpty ==
    Returned("Print") =>
        LET t == tables[last.k] IN
        \A r \in 1..Len(t.rows) :
            out[HeadLines(t) + r] =
                Concat([j \in 1..Len(t.header) |->
                           Padded(t, IF j <= Len(t.rows[r]) THEN t.rows[r][j] ELSE <<>>,
                                  t.widths[j])]) \o <<NL>>

\* what C15 says of one SetRows(rows) that takes table t to table u
SetRowsPost(t, u, rows) ==
    LET C == Len(t.header) IN
    /\ u.header = t.header
    /\ Len(u.rows) = Len(rows)
    /\ \A r \in 1..Len(rows) :
          IF Len(rows[r]) > C
          THEN /\ Len(u.rows[r]) = C
               /\ \A j \in 1..C : u.rows[r][j] = rows[r][j]
          ELSE u.rows[r] = rows[r]

\* C15: SetRows(rows) replaces the whole row collection by the given rows in
\* their order, a row longer than the header stored as its first C cells and
\* any other row as it is; it never fails.
SetRowsReplaces ==
    [][last'.op = "SetRows" =>
          \A k \in DOMAIN tables : \A rows \in SetRowsInputs :
              DoSetRows(k, rows)
                  => /\ SetRowsPost(tables[k], tables'[k], rows)
                     /\ ~fault'
                     /\ err' = "none"]_vars

\* SetRows of one row of four cells over a header of two columns: the table
\* holds its first two cells
SetRowsReplacesWitness ==
    /\ Returned("SetRows")
    /\ Len(tables["s"].header) = 2
    /\ tables["s"].rows = << <<CellA, CellB>> >>

\* C17: Print called twice with no call between writes the same bytes both
\* times, and Print leaves the header, the rows and the configuration as
\* they were.
PrintIdempotent ==
    [][(last'.op = "Print" /\ ~fault')
          => LET t == tables[last'.k]
                 u == tables'[last'.k]
             IN  /\ u.header = t.header
                 /\ u.rows = t.rows
                 /\ u.Padding = t.Padding
                 /\ u.Width = t.Width
                 /\ u.HeaderSeparatorRune = t.HeaderSeparatorRune
                 /\ u.PrintHeaders = t.PrintHeaders
                 /\ (Returned("Print") /\ last.k = last'.k) => out' = out]_vars

\* a Print of a header, a separator and two rows, one of them short
PrintIdempotentWitness ==
    /\ Returned("Print")
    /\ LET t == tables[last.k] IN
       /\ Len(t.header) = 2
       /\ Len(t.rows) = 2
       /\ Len(t.rows[1]) = 1
       /\ Len(t.rows[2]) = 2
       /\ Len(out) = 4

\* C18: what Print writes begins with a line break before the first table
\* line and ends with a line break after the last.
PrintFramedByNewlines ==
    Returned("Print") =>
        LET text == Concat(out) IN
        /\ text # <<>>
        /\ text[1] = NL
        /\ text[Len(text)] = NL

\* the glyph of the header separator, n times
Glyphs(t, n) == [i \in 1..n |-> t.HeaderSeparatorRune]

\* how many glyphs C19 gives the separator of column j
GlyphCount(t, j) == Width(t, t.header[j]) \div Width(t, <<t.HeaderSeparatorRune>>)

\* C19: Print writes the header line only if headers are printed and the
\* separator line only if the separator rune is not zero; the separator line
\* directly follows the header line and holds, for each column j, the glyph
\* floor(metric(header[j]) / metric(glyph)) times, padded with spaces to the
\* column's width, so it is never wider than the header's text.
HeaderAndSeparator ==
    Returned("Print") =>
        LET t == tables[last.k]
            heads == Len(out) - Len(t.rows)
        IN  /\ heads \in 0..2
            /\ heads >= 1 => t.PrintHeaders
            /\ heads = 2 => t.HeaderSeparatorRune # 0
            /\ t.PrintHeaders => heads = (IF t.HeaderSeparatorRune # 0 THEN 2 ELSE 1)
            /\ heads >= 1 =>
                  out[1] = Concat([j \in 1..Len(t.header) |->
                                      Padded(t, t.header[j], t.widths[j])]) \o <<NL>>
            /\ heads = 2 =>
                  /\ out[2] = Concat([j \in 1..Len(t.header) |->
                                         Padded(t, Glyphs(t, GlyphCount(t, j)), t.widths[j])])
                              \o <<NL>>
                  /\ \A j \in 1..Len(t.header) :
                        Width(t, Glyphs(t, GlyphCount(t, j))) <= Width(t, t.header[j])

\* a separator of a glyph two cells wide under headers of four and two cells:
\* two glyphs and one
HeaderAndSeparatorWitness ==
    /\ Returned("Print")
    /\ LET t == tables[last.k] IN
       /\ t.PrintHeaders
       /\ Width(t, <<t.HeaderSeparatorRune>>) = 2
       /\ Len(t.header) >= 2
       /\ GlyphCount(t, 1) = 2
       /\ GlyphCount(t, 2) = 1
       /\ Len(t.rows) >= 1
       /\ Len(out) = Len(t.rows) + 2

---------------------------------------------------------------------------
(* Properties of the sorter.                                               *)

IsSort(call) == call.op \in {"SortBy", "SortByMultiple"}

\* the criteria a sorter call orders by, in order
CriteriaOf(call) ==
    IF call.op = "SortBy"
    THEN <<[ColumnIndex |-> call.arg.columnIndex, Compare |-> call.arg.cmpFn]>>
    ELSE call.arg

\* every criterion names a column of the header
ValidCriteria(t, crit) ==
    \A c \in 1..Len(crit) : crit[c].ColumnIndex >= 0 /\ crit[c].ColumnIndex < Len(t.header)

\* row stores a cell in the column of every criterion
HasCells(row, crit) == \A c \in 1..Len(crit) : crit[c].ColumnIndex < Len(row)

\* the result of criterion c on rows a and b
CompareAt(a, b, c) == Compare(c.Compare, a[c.ColumnIndex + 1], b[c.ColumnIndex + 1])

\* rows a and b compare equal under every criterion
Tied(a, b, crit) ==
    /\ HasCells(a, crit)
    /\ HasCells(b, crit)
    /\ \A c \in 1..Len(crit) : CompareAt(a, b, crit[c]) = 0

\* the rows of q that tie with row x, in their order in q
TiedWith(q, x, crit) == LET T(y) == Tied(x, y, crit) IN SelectSeq(q, T)

\* the latest call was a sorter call that returned nil
SortReturned == IsSort(last) /\ ~fault /\ err = "nil"

\* C2: SortBy and SortByMultiple are stable: the rows that compare equal
\* under every criterion are in the same order after the call as before.
SortStable ==
    [][(IsSort(last') /\ ~fault' /\ err' = "nil") =>
          \A r \in 1..Len(tables[last'.k].rows) :
              TiedWith(tables'[last'.k].rows, tables[last'.k].rows[r], CriteriaOf(last'))
                  = TiedWith(tables[last'.k].rows, tables[last'.k].rows[r], CriteriaOf(last'))]_vars

\* a sort of three rows on column 0 has returned: two different rows tie,
\* the earlier one has the larger cell in column 1, and a third row does
\* not tie with them
SortStableWitness ==
    /\ SortReturned
    /\ CriteriaOf(last) = <<[ColumnIndex |-> 0, Compare |-> StringCmp]>>
    /\ LET q == tables[last.k].rows IN
       /\ Len(q) = 3
       /\ \A p \in 1..3 : Len(q[p]) = 2
       /\ Tied(q[1], q[2], CriteriaOf(last))
       /\ StringLess(q[2][2], q[1][2])
       /\ ~Tied(q[2], q[3], CriteriaOf(last))

\* the criteria, by position, that do not compare rows a and b as 0
Deciding(a, b, crit) == {c \in 1..Len(crit) : CompareAt(a, b, crit[c]) # 0}

\* a before b agrees with the lexicographic combination of the criteria
LexOrdered(a, b, crit) ==
    \/ Deciding(a, b, crit) = {}
    \/ CompareAt(a, b, crit[CHOOSE c \in Deciding(a, b, crit) :
                                \A d \in Deciding(a, b, crit) : c <= d]) < 0

\* C3: after SortByMultiple returns nil, for rows at positions p < q either
\* every criterion compares them as 0 or the first criterion in list order
\* that does not gives a negative result.
SortedLexicographically ==
    (last.op = "SortByMultiple" /\ SortReturned) =>
        LET q == tables[last.k].rows IN
        \A p1 \in 1..Len(q) : \A p2 \in (p1 + 1)..Len(q) :
            (HasCells(q[p1], last.arg) /\ HasCells(q[p2], last.arg))
                => LexOrdered(q[p1], q[p2], last.arg)

\* SortByMultiple by column 1 ascending, then column 0 descending, has
\* returned on three rows: a pair is decided by the second criterion and a
\* pair by the first
SortedLexicographicallyWitness ==
    /\ last.op = "SortByMultiple"
    /\ SortReturned
    /\ last.arg = <<[ColumnIndex |-> 1, Compare |-> StringCmp],
                    [ColumnIndex |-> 0, Compare |-> InverseComparison(StringCmp)]>>
    /\ LET q == tables[last.k].rows IN
       /\ Len(q) = 3
       /\ \A p \in 1..3 : Len(q[p]) = 2
       /\ \E p \in 1..2 : Deciding(q[p], q[p + 1], last.arg) = {2}
       /\ \E p \in 1..2 : 1 \in Deciding(q[p], q[p + 1], last.arg)

\* C4: a sorter call with a column index < 0 or >= C, in any position of
\* the criteria, returns an error and leaves the header and the rows as
\* they were.
InvalidIndexRejected ==
    [][(IsSort(last') /\ ~ValidCriteria(tables[last'.k], CriteriaOf(last'))) =>
          /\ err' = "error"
          /\ ~fault'
          /\ tables'[last'.k].header = tables[last'.k].header
          /\ tables'[last'.k].rows = tables[last'.k].rows]_vars

\* SortByMultiple has returned an error for criteria whose first column is
\* valid and whose second is the header length, on rows that the first
\* criterion would have reordered
InvalidIndexRejectedWitness ==
    /\ last.op = "SortByMultiple"
    /\ err = "error"
    /\ Len(last.arg) = 2
    /\ last.arg[1] = [ColumnIndex |-> 0, Compare |-> StringCmp]
    /\ last.arg[2].ColumnIndex = Len(tables[last.k].header)
    /\ LET q == tables[last.k].rows IN
       /\ Len(q) >= 2
       /\ Len(q[1]) >= 1
       /\ Len(q[2]) >= 1
       /\ StringLess(q[2][1], q[1][1])

\* how many times row is stored in q
Occurrences(q, row) == Cardinality({i \in 1..Len(q) : q[i] = row})

\* C21: SortBy and SortByMultiple only permute the rows: whether the call
\* returns nil or an error, the header and the number of rows are unchanged
\* and every row is stored as many times after the call as before.
SortPermutes ==
    [][(IsSort(last') /\ ~fault') =>
          LET t == tables[last'.k]
              u == tables'[last'.k]
          IN  /\ u.header = t.header
              /\ Len(u.rows) = Len(t.rows)
              /\ \A i \in 1..Len(t.rows) :
                    Occurrences(u.rows, t.rows[i]) = Occurrences(t.rows, t.rows[i])
              /\ \A i \in 1..Len(u.rows) :
                    Occurrences(u.rows, u.rows[i]) = Occurrences(t.rows, u.rows[i])]_vars

\* a sort has returned nil on three rows, two of them equal and one short,
\* and left the short row first and an equal pair behind it
SortPermutesWitness ==
    /\ SortReturned
    /\ LET q == tables[last.k].rows IN
       /\ Len(q) = 3
       /\ Len(q[1]) = 1
       /\ q[2] = q[3]
       /\ Len(q[2]) = 2
       /\ Len(tables[last.k].header) = 2

\* C5: SortBy with 0 <= n < C returns nil and does not panic, whatever the
\* lengths of the stored rows.
SortByNeverPanics ==
    (last.op = "SortBy" /\ ValidCriteria(tables[last.k], CriteriaOf(last)))
        => (~fault /\ err = "nil")

---------------------------------------------------------------------------
(* The transposer.                                                         *)

\* the operations of C10 that act on one table
PairOps == {"AddRow", "SetRows", "AddHeader", "SortBy", "SortByMultiple", "Print"}

\* t has a cell at column n of row j, both counted from 0
HasCell(t, j, n) == n + 1 <= Len(t.rows[j + 1])

\* the shape C8 gives the table r returned by Transpose on t
TransposedShape(t, r) ==
    LET C == Len(t.header)
        N == Len(t.rows)
    IN  /\ C >= 1
        /\ Len(r.header) = N + 1
        /\ r.header[1] = t.header[1]
        /\ \A j \in 0..(N - 1) : r.header[j + 2] = t.rows[j + 1][1]
        /\ Len(r.rows) = C - 1
        /\ \A i \in 0..(C - 2) :
              /\ Len(r.rows[i + 1]) = N + 1
              /\ r.rows[i + 1][1] = t.header[i + 2]
              /\ \A j \in 0..(N - 1) :
                    HasCell(t, j, i + 1)
                        => r.rows[i + 1][j + 2] = t.rows[j + 1][i + 2]

\* C8: a Transpose that returns, on a table with header [H0..H(C-1)], C >= 1,
\* and N rows, returns a table with header [H0, row0[0], ..., row(N-1)[0]] and
\* C-1 rows of N+1 cells, row i starting with H(i+1) and holding at cell j+1
\* the cell i+1 of source row j.
TransposeShape ==
    [][(last'.op = "Transpose" /\ ~fault')
          => ("r" \in DOMAIN tables' /\ TransposedShape(tables["s"], tables'["r"]))]_vars

\* a returned transposition of two full rows under a header of three columns
TransposeShapeWitness ==
    /\ Returned("Transpose")
    /\ "r" \in DOMAIN tables
    /\ Len(tables["s"].header) = 3
    /\ Len(tables["s"].rows) = 2
    /\ \A j \in 1..2 : Len(tables["s"].rows[j]) = 3
    /\ tables["r"].header = <<tables["s"].header[1], CellA, CellB>>
    /\ tables["r"].rows[2] = <<tables["s"].header[3], CellBB, CellA>>

\* C9: Transpose on a table with at least one header column does not panic,
\* whatever the lengths of its stored rows, and a position whose source cell is
\* missing holds the empty string.
TransposeNeverPanics ==
    (last.op = "Transpose" /\ Len(tables["s"].header) >= 1)
        => /\ ~fault
           /\ "r" \in DOMAIN tables
           /\ \A i \in 0..(Len(tables["s"].header) - 2), j \in 0..(Len(tables["s"].rows) - 1) :
                 ~HasCell(tables["s"], j, i + 1) => tables["r"].rows[i + 1][j + 2] = <<>>

\* C10: Transpose leaves its source as it was and hands its configuration to
\* the result; AddRow, SetRows, AddHeader, SortBy, SortByMultiple and Print on
\* one of the two tables leave the header and the rows of the other unchanged.
TransposeIndependent ==
    [][/\ (last'.op = "Transpose" /\ ~fault')
            => /\ tables'["s"] = tables["s"]
               /\ tables'["r"].Padding = tables["s"].Padding
               /\ tables'["r"].HeaderSeparatorRune = tables["s"].HeaderSeparatorRune
               /\ tables'["r"].PrintHeaders = tables["s"].PrintHeaders
       /\ last'.op \in PairOps
            => \A x \in DOMAIN tables \ {last'.k} :
                  /\ tables'[x].header = tables[x].header
                  /\ tables'[x].rows = tables[x].rows]_vars

\* the transposition was given a row and sorted into a new order while the
\* source holds its two rows
TransposeIndependentWitness ==
    /\ "r" \in DOMAIN tables
    /\ Returned("SortByMultiple")
    /\ last.k = "r"
    /\ Len(tables["s"].rows) = 2
    /\ Len(tables["r"].rows) = 2
    /\ tables["r"].rows[1] = <<CellA, CellB>>
    /\ tables["r"].rows[2][1] = tables["s"].header[2]

\* C11: Transpose of a table with exactly one header column, and Transpose of
\* a table with zero rows, does not panic and returns a table with no rows.
TransposeDegenerateEmpty ==
    (/\ last.op = "Transpose"
     /\ \/ Len(tables["s"].header) = 1
        \/ Len(tables["s"].header) >= 1 /\ Len(tables["s"].rows) = 0)
        => /\ ~fault
           /\ "r" \in DOMAIN tables
           /\ tables["r"].rows = <<>>

---------------------------------------------------------------------------
(* The exporters.                                                          *)

\* the value of a hexadecimal digit
HexValue(c) == IF c <= 57 THEN c - 48 ELSE c - 87

RECURSIVE ReadString(_, _, _)
\* the JSON string whose first rune after the opening quote is text[i]: its
\* value and the position after its closing quote
ReadString(text, i, acc) ==
    IF text[i] = 34 THEN [value |-> acc, next |-> i + 1]
    ELSE IF text[i] # 92 THEN ReadString(text, i + 1, Append(acc, text[i]))
    ELSE IF text[i + 1] = 117
    THEN ReadString(text, i + 6,
                    Append(acc, HexValue(text[i + 2]) * 4096 + HexValue(text[i + 3]) * 256
                                + HexValue(text[i + 4]) * 16 + HexValue(text[i + 5])))
    ELSE ReadString(text, i + 2,
                    Append(acc, CASE text[i + 1] = 110 -> 10
                                  [] text[i + 1] = 114 -> 13
                                  [] text[i + 1] = 116 -> 9
                                  [] OTHER -> text[i + 1]))

RECURSIVE ReadRowObject(_, _, _)
\* the members of a JSON object of strings from position i on: the mapping
\* and the position after the closing brace
ReadRowObject(text, i, m) ==
    IF text[i] = 125 THEN [value |-> m, next |-> i + 1]
    ELSE IF text[i] = 44 THEN ReadRowObject(text, i + 1, m)
    ELSE LET name == ReadString(text, i + 1, <<>>)
             cell == ReadString(text, name.next + 2, <<>>)
         IN  ReadRowObject(text, cell.next, Put(m, name.value, cell.value))

RECURSIVE ReadObject(_, _, _)
\* the members of a JSON object of objects of strings from position i on
ReadObject(text, i, m) ==
    IF text[i] = 125 THEN [value |-> m, next |-> i + 1]
    ELSE IF text[i] = 44 THEN ReadObject(text, i + 1, m)
    ELSE LET key == ReadString(text, i + 1, <<>>)
             obj == ReadRowObject(text, key.next + 2, EmptyMap)
         IN  ReadObject(text, obj.next, Put(m, key.value, obj.value))

\* text is one JSON object and nothing more
IsJSONObject(text) ==
    /\ Len(text) >= 2
    /\ text[1] = 123
    /\ ReadObject(text, 2, EmptyMap).next = Len(text) + 1

\* the object text denotes
JSONObject(text) == ReadObject(text, 2, EmptyMap).value

\* cell n (from 0) of row, the empty string when the row has no such cell
CellOrEmpty(row, n) == IF n + 1 <= Len(row) THEN row[n + 1] ELSE <<>>

\* ExportJSON(keyColumn) on t has to fail
KeyColumnInvalid(t, keyColumn) ==
    \/ keyColumn < 0
    \/ keyColumn >= Len(t.header)
    \/ \E r \in 1..Len(t.rows) : Len(t.rows[r]) < keyColumn + 1

\* C12: ExportJSON(k) returns an error and does not panic when k < 0 or
\* k >= C or some stored row has fewer than k+1 cells; it then writes nothing
\* and leaves the header and the rows unchanged.
ExportJSONRejects ==
    [][(last'.op = "ExportJSON" /\ KeyColumnInvalid(tables[last'.k], last'.arg))
          => /\ err' = "error"
             /\ ~fault'
             /\ out' = <<>>
             /\ tables'[last'.k].header = tables[last'.k].header
             /\ tables'[last'.k].rows = tables[last'.k].rows]_vars

\* ExportJSON(1) refused for a row of one cell under a header of two columns,
\* after a row that has the key cell
ExportJSONRejectsWitness ==
    /\ last.op = "ExportJSON"
    /\ err = "error"
    /\ out = <<>>
    /\ last.arg = 1
    /\ Len(tables["s"].header) = 2
    /\ Len(tables["s"].rows) >= 2
    /\ Len(tables["s"].rows[1]) = 2
    /\ \E r \in 2..Len(tables["s"].rows) : Len(tables["s"].rows[r]) = 1

\* the object C13 describes for ExportJSON(keyColumn) on t
ExportedObject(t, keyColumn) ==
    LET keys == {t.rows[r][keyColumn + 1] : r \in 1..Len(t.rows)}
        lastRow(v) == t.rows[MaxOf({r \in 1..Len(t.rows) : t.rows[r][keyColumn + 1] = v})]
        column(h) == MaxOf({j \in 1..Len(t.header) : t.header[j] = h})
    IN  [v \in keys |->
            [h \in {t.header[j] : j \in 1..Len(t.header)} |->
                CellOrEmpty(lastRow(v), column(h) - 1)]]

\* C13: when ExportJSON(k) succeeds it writes one JSON object with one key
\* per distinct value of column k; under key v stands the mapping of the last
\* row whose column-k cell is v, which has every header name, mapped to the
\* row's cell in the column of that name (the last such column when several
\* bear the name) or to the empty string when the row has no such cell.
ExportJSONObject ==
    (last.op = "ExportJSON" /\ err = "nil")
        => /\ Len(out) = 1
           /\ IsJSONObject(out[1])
           /\ JSONObject(out[1]) = ExportedObject(tables[last.k], last.arg)

\* a successful export in which two rows share the key and differ in the
\* other column, and a third row lacks that column
ExportJSONObjectWitness ==
    /\ last.op = "ExportJSON"
    /\ err = "nil"
    /\ last.arg = 0
    /\ LET t == tables["s"] IN
       /\ Len(t.header) = 2
       /\ Len(t.rows) = 3
       /\ t.rows[1][1] = t.rows[2][1]
       /\ t.rows[1][2] # t.rows[2][2]
       /\ Len(t.rows[3]) = 1
       /\ DOMAIN JSONObject(out[1]) = {t.rows[2][1], t.rows[3][1]}
       /\ JSONObject(out[1])[t.rows[2][1]][t.header[2]] = t.rows[2][2]
       /\ JSONObject(out[1])[t.rows[3][1]][t.header[2]] = <<>>

RECURSIVE ReadCSV(_, _, _, _, _, _)
\* the records of a comma-separated text read from position i on: quoted is
\* whether i is inside a quoted field, field and record what was read of the
\* current field and record
ReadCSV(text, i, quoted, field, record, records) ==
    IF i > Len(text)
    THEN (IF field = <<>> /\ record = <<>> THEN records
          ELSE Append(records, Append(record, field)))
    ELSE IF quoted
    THEN (IF text[i] # 34 THEN ReadCSV(text, i + 1, TRUE, Append(field, text[i]), record, records)
          ELSE IF i < Len(text) /\ text[i + 1] = 34
          THEN ReadCSV(text, i + 2, TRUE, Append(field, 34), record, records)
          ELSE ReadCSV(text, i + 1, FALSE, field, record, records))
    ELSE IF text[i] = 34 THEN ReadCSV(text, i + 1, TRUE, field, record, records)
    ELSE IF text[i] = 44 THEN ReadCSV(text, i + 1, FALSE, <<>>, Append(record, field), records)
    ELSE IF text[i] = NL
    THEN ReadCSV(text, i + 1, FALSE, <<>>, <<>>, Append(records, Append(record, field)))
    ELSE ReadCSV(text, i + 1, FALSE, Append(field, text[i]), record, records)

\* what C14 says of the text ExportCSV writes for table t
CSVRecords(t, text) ==
    LET records == ReadCSV(text, 1, FALSE, <<>>, <<>>, <<>>) IN
    /\ Len(records) = Len(t.rows) + 1
    /\ records[1] = t.header
    /\ \A r \in 1..Len(t.rows) :
          /\ Len(records[r + 1]) = Len(t.header)
          /\ \A j \in 1..Len(t.header) : records[r + 1][j] = CellOrEmpty(t.rows[r], j - 1)

\* C14: ExportCSV on a table with N rows writes N+1 records, the header and
\* then the rows in order, each of C fields, a row of fewer cells padded
\* with empty fields on the right; the header and the rows stay as they were.
ExportCSVRecords ==
    [][last'.op = "ExportCSV"
          => /\ err' = "nil"
             /\ Len(out') = 1
             /\ CSVRecords(tables[last'.k], out'[1])
             /\ tables' = tables]_vars

\* an export of a short row after a row whose cells need quoting
ExportCSVRecordsWitness ==
    /\ Returned("ExportCSV")
    /\ LET t == tables["s"] IN
       /\ Len(t.header) = 2
       /\ \E r \in 1..Len(t.rows) : Len(t.rows[r]) < 2
       /\ \E r \in 1..Len(t.rows) : t.rows[r] = <<CellA, CellBB>>
    /\ Len(ReadCSV(out[1], 1, FALSE, <<>>, <<>>, <<>>)) = 4

---------------------------------------------------------------------------
(* The comparators.                                                        *)

\* the parse a number comparator named fn applies to a cell
ParsedNumber(fn, str) ==
    CASE fn = "NumericalComparison" -> ParseFloat(str)
      [] fn = "CurrencyComparison" -> parseCurrencyString(str)
      [] fn = "PercentComparison" -> parsePercentString(str)

\* -1, 0 or 1 as less holds of (x, y), of neither order, or of (y, x)
Sign(less(_, _), x, y) == IF less(x, y) THEN -1 ELSE IF less(y, x) THEN 1 ELSE 0

\* false < true
BoolLess(x, y) == ~x /\ y

---------------------------------------------------------------------------
(* The shape of the stored rows.                                           *)

\* every stored row of t has at most as many cells as the header
RowsWithinHeader(t) == \A r \in 1..Len(t.rows) : Len(t.rows[r]) <= Len(t.header)

\* C20: after any sequence of AddRow, AddRowAsArray, SetRows, AddHeader,
\* AddHeaders, AddHeadersAsArray, SortBy, SortByMultiple and Transpose from
\* New, every stored row has at most C cells, no operation on a table makes
\* its header shorter, and the width computation of Print does not index
\* past the width vector.
RowsNeverExceedHeader ==
    [][/\ \A k \in DOMAIN tables' : RowsWithinHeader(tables'[k])
       /\ last'.op # "Transpose"
             => \A k \in DOMAIN tables : Len(tables'[k].header) >= Len(tables[k].header)
       /\ last'.op = "Print" => ~fault']_vars

\* a Print of a transposed table whose first row was cut to the header's
\* length by SetRows
RowsNeverExceedHeaderWitness ==
    /\ Returned("Print")
    /\ LET t == tables["s"] IN
       /\ Len(t.header) = 2
       /\ t.header[2] \in {CellA, CellB}
       /\ t.rows = << <<CellA, CellB>>, <<CellB, CellA>> >>

---------------------------------------------------------------------------
(* The transposer, twice.                                                  *)

\* t has at least two header columns and every row of t has a cell in each
FullTable(t) ==
    /\ Len(t.header) >= 2
    /\ \A r \in 1..Len(t.rows) : Len(t.rows[r]) = Len(t.header)

\* C22: for a table t of C >= 2 header columns whose rows all have exactly C
\* cells, t.Transpose().Transpose() has the header of t and the rows of t
\* in the same order.
TransposeTwiceRestores ==
    [][(/\ Returned("Transpose")
        /\ last.k = "s"
        /\ FullTable(tables["s"])
        /\ last'.op = "Transpose"
        /\ last'.k = "r")
          => /\ ~fault'
             /\ tables'["r"].header = tables["s"].header
             /\ tables'["r"].rows = tables["s"].rows]_vars

\* the second transposition of a table of three columns and two different
\* rows has returned
TransposeTwiceRestoresWitness ==
    /\ Returned("Transpose")
    /\ last.k = "r"
    /\ FullTable(tables["s"])
    /\ Len(tables["s"].header) = 3
    /\ Len(tables["s"].rows) = 2
    /\ tables["s"].rows[1] # tables["s"].rows[2]
    /\ tables["r"].header = tables["s"].header
    /\ tables["r"].rows = tables["s"].rows

=============================================================================
